---- MODULE Spec2Model ----
(***************************************************************************)
(* The Shaw 402 vault program (programs/vault/src/lib.rs): the merchant    *)
(* deposit record, the vault configuration record, the instruction        *)
(* handlers, the dynamic-yield engine and the tier classifier.             *)
(*                                                                         *)
(* Amounts are u64 in the program and intermediate products are u64 or    *)
(* u128.  TLC's integers are 32 bits wide, so an amount is held as a       *)
(* natural number in limbs: a sequence of digits in base 10^4, least       *)
(* significant first, without leading zero limbs (zero is << >>).  The     *)
(* limb operators below are exact arithmetic on naturals; the checked_*    *)
(* operators put the u64 width on top of them.  Timestamps (i64 seconds)   *)
(* stay far below 2^31 in every run and are plain integers.                *)
(***************************************************************************)
EXTENDS Integers, Sequences, FiniteSets, TLC

\* ---------------------------------------------------------------------------
\* Exact arithmetic on naturals in limbs
\* ---------------------------------------------------------------------------

Base == 10^4

RECURSIVE BN(_)
\* the limbs of a natural number that fits a TLC integer
BN(n) == IF n = 0 THEN << >> ELSE <<n % Base>> \o BN(n \div Base)

RECURSIVE BAddC(_, _, _)
BAddC(a, b, c) ==
    IF a = << >> /\ b = << >>
    THEN (IF c = 0 THEN << >> ELSE <<c>>)
    ELSE LET x == IF a = << >> THEN 0 ELSE Head(a)
             y == IF b = << >> THEN 0 ELSE Head(b)
             s == x + y + c
         IN  <<s % Base>> \o BAddC(IF a = << >> THEN a ELSE Tail(a),
                                   IF b = << >> THEN b ELSE Tail(b),
                                   s \div Base)

BAdd(a, b) == BAddC(a, b, 0)

RECURSIVE BMulSmallC(_, _, _)
\* a * k + c for a limb-sized k > 0
BMulSmallC(a, k, c) ==
    IF a = << >>
    THEN BN(c)
    ELSE LET s == Head(a) * k + c
         IN  <<s % Base>> \o BMulSmallC(Tail(a), k, s \div Base)

BShift(a) == IF a = << >> THEN a ELSE <<0>> \o a

RECURSIVE BMul(_, _)
BMul(a, b) ==
    IF a = << >> \/ b = << >>
    THEN << >>
    ELSE BAdd(IF Head(b) = 0 THEN << >> ELSE BMulSmallC(a, Head(b), 0),
              BShift(BMul(a, Tail(b))))

RECURSIVE BDivRem(_, _)
\* quotient and remainder of a by a divisor d with 0 < d < 2^31 / Base
BDivRem(a, d) ==
    IF a = << >>
    THEN [q |-> << >>, r |-> 0]
    ELSE LET hi  == BDivRem(Tail(a), d)
             cur == hi.r * Base + Head(a)
             qd  == cur \div d
         IN  [q |-> IF hi.q = << >> /\ qd = 0 THEN << >> ELSE <<qd>> \o hi.q,
              r |-> cur % d]

BDivSmall(a, d) == BDivRem(a, d).q

\* floor(a / Base^k): the low k limbs dropped
BDivPow(a, k) == IF Len(a) <= k THEN << >> ELSE SubSeq(a, k + 1, Len(a))

RECURSIVE BLessFrom(_, _, _)
\* a < b for a, b of equal length, compared from limb i downwards
BLessFrom(a, b, i) ==
    IF i = 0 THEN FALSE
    ELSE IF a[i] # b[i] THEN a[i] < b[i]
    ELSE BLessFrom(a, b, i - 1)

BLess(a, b) ==
    IF Len(a) # Len(b) THEN Len(a) < Len(b) ELSE BLessFrom(a, b, Len(a))

BLeq(a, b) == ~BLess(b, a)

BMin(a, b) == IF BLess(b, a) THEN b ELSE a

RECURSIVE BStrip(_)
BStrip(a) ==
    IF a = << >> THEN a
    ELSE IF a[Len(a)] = 0 THEN BStrip(SubSeq(a, 1, Len(a) - 1))
    ELSE a

RECURSIVE BSubC(_, _, _)
BSubC(a, b, c) ==
    IF a = << >>
    THEN << >>
    ELSE LET y == IF b = << >> THEN 0 ELSE Head(b)
             s == Head(a) - y - c
         IN  <<IF s < 0 THEN s + Base ELSE s>>
             \o BSubC(Tail(a), IF b = << >> THEN b ELSE Tail(b),
                      IF s < 0 THEN 1 ELSE 0)

\* a - b for a >= b
BSub(a, b) == BStrip(BSubC(a, b, 0))

\* the value of a small limb number as a TLC integer (a < 2^31)
RECURSIVE BInt(_)
BInt(a) == IF a = << >> THEN 0 ELSE Head(a) + Base * BInt(Tail(a))

\* ---------------------------------------------------------------------------
\* Integer widths and checked arithmetic
\* ---------------------------------------------------------------------------

\* u16::MAX, u32::MAX, u64::MAX and u128::MAX
U16Max  == 2^16 - 1
U32Max  == <<7295, 9496, 42>>
U64Max  == <<1615, 955, 737, 6744, 1844>>
U128Max == <<1455, 6821, 4317, 4607, 6337, 4634, 938, 6692, 2823, 340>>

\* Option::None of a checked operation (no limb is negative)
None == <<-1>>

\* u64::checked_add, u64::checked_mul, u64::checked_div (divisor a small constant)
checked_add(a, b) == LET s == BAdd(a, b) IN IF BLeq(s, U64Max) THEN s ELSE None
checked_mul(a, b) == LET p == BMul(a, b) IN IF BLeq(p, U64Max) THEN p ELSE None
checked_div(a, d) == IF d = 0 THEN None ELSE BDivSmall(a, d)

\* u32::checked_add
checked_add_u32(a, b) == LET s == BAdd(a, b) IN IF BLeq(s, U32Max) THEN s ELSE None

\* u128::checked_mul
checked_mul_u128(a, b) == LET p == BMul(a, b) IN IF BLeq(p, U128Max) THEN p ELSE None

\* Option::unwrap_or(0)
unwrap_or_0(o) == IF o = None THEN << >> ELSE o

\* a checked step applied to the result of the step before it: the `?` after
\* each step returns MathOverflow at the first None, so a None stays None
then_mul(o, b) == IF o = None THEN None ELSE checked_mul(o, b)
then_div(o, d) == IF o = None THEN None ELSE checked_div(o, d)
then_add(a, o) == IF o = None THEN None ELSE checked_add(a, o)

\* u16::saturating_add
saturating_add(a, b) == IF a + b > U16Max THEN U16Max ELSE a + b

\* `x as u128` of an i64: a negative value is sign-extended, 2^128 - |x|
as_u128(x) == IF x >= 0 THEN BN(x) ELSE BSub(U128Max, BN((-x) - 1))

\* i64 division: the quotient is truncated towards zero
i64_div(a, b) == IF a >= 0 THEN a \div b ELSE -((-a) \div b)

\* ---------------------------------------------------------------------------
\* Yield engine and tier classifier
\* ---------------------------------------------------------------------------

BASE_YIELD_BPS        == 300
MAX_VOLUME_BONUS_BPS  == 600
MAX_LOYALTY_BONUS_BPS == 300
MAX_TOTAL_YIELD_BPS   == 1200

\* 1_000_000_000000 = Base^3: $1M in micro-units
VOLUME_BONUS_CAP_USD == <<0, 0, 0, 1>>

\* the volume term of calculate_dynamic_yield
volume_bonus_bps(monthly_volume_usd) ==
    IF BLeq(VOLUME_BONUS_CAP_USD, monthly_volume_usd)
    THEN MAX_VOLUME_BONUS_BPS
    ELSE LET volume_ratio ==
                 BDivPow(unwrap_or_0(checked_mul_u128(monthly_volume_usd,
                                                      BN(MAX_VOLUME_BONUS_BPS))), 3)
         IN  BInt(BMin(volume_ratio, BN(MAX_VOLUME_BONUS_BPS)))

\* mutant: the product of the loyalty term taken with wrapping_mul
loyalty_bonus_bps_wrapping(days_deposited) ==
    IF days_deposited >= 365 \/ days_deposited < 0
    THEN MAX_LOYALTY_BONUS_BPS
    ELSE LET loyalty_ratio ==
                 BDivSmall(BMul(BN(days_deposited), BN(MAX_LOYALTY_BONUS_BPS)), 365)
         IN  BInt(BMin(loyalty_ratio, BN(MAX_LOYALTY_BONUS_BPS)))

\* the loyalty term of calculate_dynamic_yield
loyalty_bonus_bps(days_deposited) ==
    IF days_deposited >= 365
    THEN MAX_LOYALTY_BONUS_BPS
    ELSE LET loyalty_ratio ==
                 BDivSmall(unwrap_or_0(checked_mul_u128(as_u128(days_deposited),
                                                        BN(MAX_LOYALTY_BONUS_BPS))), 365)
         IN  BInt(BMin(loyalty_ratio, BN(MAX_LOYALTY_BONUS_BPS)))

\* mutant: the base yield left out of the sum
calculate_dynamic_yield_no_base(monthly_volume_usd, days_deposited) ==
    LET total == saturating_add(volume_bonus_bps(monthly_volume_usd),
                                loyalty_bonus_bps(days_deposited))
    IN  IF total < MAX_TOTAL_YIELD_BPS THEN total ELSE MAX_TOTAL_YIELD_BPS

calculate_dynamic_yield(monthly_volume_usd, days_deposited) ==
    LET total == saturating_add(saturating_add(BASE_YIELD_BPS,
                                               volume_bonus_bps(monthly_volume_usd)),
                                loyalty_bonus_bps(days_deposited))
    IN  IF total < MAX_TOTAL_YIELD_BPS THEN total ELSE MAX_TOTAL_YIELD_BPS

TIER_BRONZE   == 0
TIER_SILVER   == 1
TIER_GOLD     == 2
TIER_PLATINUM == 3

\* $10k, $50k and $200k a month in micro-units
VOLUME_SILVER   == <<0, 0, 100>>
VOLUME_GOLD     == <<0, 0, 500>>
VOLUME_PLATINUM == <<0, 0, 2000>>

DAYS_SILVER   == 90
DAYS_GOLD     == 180
DAYS_PLATINUM == 365

SecondsPerDay   == 86400
SecondsPerMonth == 2592000

\* mutant: a tier granted on the volume or the tenure alone
calculate_merchant_tier_either(monthly_volume_usd, deposited_at, current_time) ==
    LET days_deposited == i64_div(current_time - deposited_at, SecondsPerDay)
    IN  IF BLeq(VOLUME_PLATINUM, monthly_volume_usd) \/ days_deposited >= DAYS_PLATINUM
        THEN TIER_PLATINUM
        ELSE IF BLeq(VOLUME_GOLD, monthly_volume_usd) \/ days_deposited >= DAYS_GOLD
        THEN TIER_GOLD
        ELSE IF BLeq(VOLUME_SILVER, monthly_volume_usd) \/ days_deposited >= DAYS_SILVER
        THEN TIER_SILVER
        ELSE TIER_BRONZE

calculate_merchant_tier(monthly_volume_usd, deposited_at, current_time) ==
    LET days_deposited == i64_div(current_time - deposited_at, SecondsPerDay)
    IN  IF BLeq(VOLUME_PLATINUM, monthly_volume_usd) /\ days_deposited >= DAYS_PLATINUM
        THEN TIER_PLATINUM
        ELSE IF BLeq(VOLUME_GOLD, monthly_volume_usd) /\ days_deposited >= DAYS_GOLD
        THEN TIER_GOLD
        ELSE IF BLeq(VOLUME_SILVER, monthly_volume_usd) /\ days_deposited >= DAYS_SILVER
        THEN TIER_SILVER
        ELSE TIER_BRONZE

\* ---------------------------------------------------------------------------
\* State
\* ---------------------------------------------------------------------------

VARIABLES
    vault,        \* the Vault account
    deposits,     \* merchant key -> the MerchantDeposit account at its derived address
    created,      \* the merchant keys whose MerchantDeposit account exists
    vault_sol,    \* lamports held by vault_sol_account
    vault_token,  \* amount held by vault_token_account
    now,          \* Clock::get()?.unix_timestamp
    last,         \* the outcome of the last instruction
    activations,  \* merchant key -> how often its account has been activated
    pure          \* inputs and results of the pure functions (SpecPure only)

vars == <<vault, deposits, created, vault_sol, vault_token, now, last, activations, pure>>

\* --- bounds and inputs of the model -----------------------------------------

\* total_deposited is topped up while it stays within MaxPrincipalUnits * 10^9
MaxPrincipalUnits == 4
\* record_order is called on an account while it has fewer than MaxOrders orders
MaxOrders == 2
\* an account is activated (deposit into an inactive account) at most
\* MaxActivations times
MaxActivations == 2

\* the clock reads Genesis plus 0, 10 and then 30 days
Genesis  == 17 * 10^8
Timeline == <<0, 10, 30>>

Authority == "admin"
\* the merchants with a MerchantDeposit address, and the identities that sign
Keys      == {"m1"}
Signers   == {"m1", "m2"}
NoKey     == "none"

\* what the custody accounts hold before the first deposit: nothing, or a reward
\* reserve of 10^9 units transferred to them from outside the program
Reserves  == {<< >>, BN(1000000000)}

\* 0.5 and 2 SOL; 50 and 100 USDC; $5 and $50 orders
SolAmounts   == {BN(500000000), BN(2000000000)}
TokenAmounts == {BN(50000000), BN(2000000000)}
OrderAmounts == {BN(5000000), BN(50000000)}

\* update_vault_config calls: signer, Option<u64>, Option<u64>, Option<u16> (-1 for
\* None), Option<bool>
ConfigCalls ==
    {<<Authority, None, None, 5000, "None">>,
     <<Authority, BN(2000000000), <<0, 0, 30>>, 5000, "false">>,
     <<Authority, BN(2000000000), None, 10001, "false">>,
     <<"m1", None, <<0, 0, 30>>, 5000, "None">>}

\* --- accounts -----------------------------------------------------------------

\* a MerchantDeposit account as init_if_needed allocates it: all bytes zero
ZeroDeposit ==
    [merchant                 |-> NoKey,
     deposit_token            |-> "Sol",
     total_deposited          |-> << >>,
     accrued_rewards          |-> << >>,
     is_active                |-> FALSE,
     deposited_at             |-> 0,
     total_orders_processed   |-> << >>,
     total_volume_usd         |-> << >>,
     current_month_volume     |-> << >>,
     last_volume_reset        |-> 0,
     monthly_unique_customers |-> << >>,
     current_yield_bps        |-> 0]

\* mutant: the default merchant share above 100%
initialize_share_18000(authority) ==
    [authority         |-> authority,
     total_deposits    |-> << >>,
     total_merchants   |-> << >>,
     min_deposit_sol   |-> BN(1000000000),
     min_deposit_token |-> BN(100000000),
     reward_share_rate |-> 18000,
     staking_enabled   |-> TRUE]

\* the Vault account after initialize
initialize(authority) ==
    [authority         |-> authority,
     total_deposits    |-> << >>,
     total_merchants   |-> << >>,
     min_deposit_sol   |-> BN(1000000000),
     min_deposit_token |-> BN(100000000),
     reward_share_rate |-> 8000,
     staking_enabled   |-> TRUE]

NoOp == [op |-> "none", key |-> NoKey, err |-> "Ok", pay |-> << >>, ret |-> << >>]

Outcome(op, key, err, pay, ret) ==
    [op |-> op, key |-> key, err |-> err, pay |-> pay, ret |-> ret]

\* ---------------------------------------------------------------------------
\* Instruction handlers: the account as the handler leaves it in memory, and
\* the handler's result
\* ---------------------------------------------------------------------------

\* mutant: the performance metrics of the record's earlier life kept
first_deposit_keeps_metrics(d, merchant, deposit_token, amount, current_time) ==
    [d EXCEPT !.merchant          = merchant,
              !.deposit_token     = deposit_token,
              !.total_deposited   = amount,
              !.accrued_rewards   = << >>,
              !.is_active         = TRUE,
              !.deposited_at      = current_time,
              !.last_volume_reset = current_time,
              !.current_yield_bps = IF d.current_yield_bps = 0 THEN 300
                                    ELSE d.current_yield_bps]

\* mutant: current_yield_bps left as allocated
first_deposit_no_yield(d, merchant, deposit_token, amount, current_time) ==
    [d EXCEPT !.merchant                 = merchant,
              !.deposit_token            = deposit_token,
              !.total_deposited          = amount,
              !.accrued_rewards          = << >>,
              !.is_active                = TRUE,
              !.deposited_at             = current_time,
              !.total_orders_processed   = << >>,
              !.total_volume_usd         = << >>,
              !.current_month_volume     = << >>,
              !.last_volume_reset        = current_time,
              !.monthly_unique_customers = << >>]

\* the else-branch of deposit_sol / deposit_token: a first deposit
first_deposit(d, merchant, deposit_token, amount, current_time) ==
    [d EXCEPT !.merchant                 = merchant,
              !.deposit_token            = deposit_token,
              !.total_deposited          = amount,
              !.accrued_rewards          = << >>,
              !.is_active                = TRUE,
              !.deposited_at             = current_time,
              !.total_orders_processed   = << >>,
              !.total_volume_usd         = << >>,
              !.current_month_volume     = << >>,
              !.last_volume_reset        = current_time,
              !.monthly_unique_customers = << >>,
              !.current_yield_bps        = 300]

\* mutant: a top-up restarts the tenure
deposit_record_restamps(d, merchant, deposit_token, amount, current_time) ==
    IF d.is_active
    THEN LET sum == checked_add(d.total_deposited, amount)
         IN  IF sum = None
             THEN [err |-> "MathOverflow", acc |-> d, moved |-> amount]
             ELSE [err |-> "Ok",
                   acc |-> [d EXCEPT !.total_deposited = sum,
                                     !.deposited_at = current_time],
                   moved |-> amount]
    ELSE [err |-> "Ok",
          acc |-> first_deposit(d, merchant, deposit_token, amount, current_time),
          moved |-> amount]

\* mutant: the top-up added with wrapping_add
deposit_record_wrapping(d, merchant, deposit_token, amount, current_time) ==
    IF d.is_active
    THEN LET sum == BAdd(d.total_deposited, amount)
         IN  [err |-> "Ok",
              acc |-> [d EXCEPT !.total_deposited =
                           IF BLeq(sum, U64Max) THEN sum
                           ELSE BSub(BSub(sum, U64Max), BN(1))],
              moved |-> amount]
    ELSE [err |-> "Ok",
          acc |-> first_deposit(d, merchant, deposit_token, amount, current_time),
          moved |-> amount]

\* deposit_sol / deposit_token after the minimum check and the transfer: the
\* record is topped up or initialised
deposit_record(d, merchant, deposit_token, amount, current_time) ==
    IF d.is_active
    THEN LET sum == checked_add(d.total_deposited, amount)
         IN  IF sum = None
             THEN [err |-> "MathOverflow", acc |-> d, moved |-> amount]
             ELSE [err |-> "Ok", acc |-> [d EXCEPT !.total_deposited = sum],
                   moved |-> amount]
    ELSE [err |-> "Ok",
          acc |-> first_deposit(d, merchant, deposit_token, amount, current_time),
          moved |-> amount]

\* mutant: the SOL deposit checked against the token minimum
deposit_sol_token_minimum(v, d, merchant, amount, current_time) ==
    IF BLess(amount, v.min_deposit_token)
    THEN [err |-> "InsufficientDeposit", acc |-> d, moved |-> << >>]
    ELSE deposit_record(d, merchant, "Sol", amount, current_time)

deposit_sol(v, d, merchant, amount, current_time) ==
    IF BLess(amount, v.min_deposit_sol)
    THEN [err |-> "InsufficientDeposit", acc |-> d, moved |-> << >>]
    ELSE deposit_record(d, merchant, "Sol", amount, current_time)

deposit_token(v, d, merchant, amount, current_time) ==
    IF BLess(amount, v.min_deposit_token)
    THEN [err |-> "InsufficientDeposit", acc |-> d, moved |-> << >>]
    ELSE deposit_record(d, merchant, "SplToken", amount, current_time)

\* `x as u64` of an i64: a negative value wraps to 2^64 - |x|
as_u64(x) == IF x >= 0 THEN BN(x) ELSE BSub(U64Max, BN((-x) - 1))

\* mutant: the yield recomputed at withdrawal, as calculate_rewards does
withdraw_rewards_recomputed(v, d, current_time) ==
    LET time_elapsed  == current_time - d.deposited_at
        days_elapsed  == i64_div(time_elapsed, SecondsPerDay)
        yield_bps     == calculate_dynamic_yield(d.current_month_volume, days_elapsed)
        annual_reward == then_div(checked_mul(d.total_deposited, BN(yield_bps)), 10000)
        daily_reward  == then_div(annual_reward, 365)
        total_rewards == then_mul(daily_reward, as_u64(days_elapsed))
    IN  then_div(then_mul(total_rewards, BN(v.reward_share_rate)), 10000)

\* withdraw, the reward arithmetic on the stored yield
withdraw_rewards(v, d, current_time) ==
    LET time_elapsed  == current_time - d.deposited_at
        days_elapsed  == i64_div(time_elapsed, SecondsPerDay)
        yield_bps     == d.current_yield_bps
        annual_reward == then_div(checked_mul(d.total_deposited, BN(yield_bps)), 10000)
        daily_reward  == then_div(annual_reward, 365)
        total_rewards == then_mul(daily_reward, as_u64(days_elapsed))
    IN  then_div(then_mul(total_rewards, BN(v.reward_share_rate)), 10000)

\* mutant: the principal cleared when the deposit is marked withdrawn
withdraw_transfer_clears_principal(d, merchant_rewards, total_withdrawal, custody, token_accounts) ==
    IF total_withdrawal = None
    THEN [err |-> "MathOverflow", acc |-> d, pay |-> << >>]
    ELSE IF d.deposit_token = "SplToken" /\ ~token_accounts
    THEN [err |-> "MissingTokenAccount", acc |-> d, pay |-> << >>]
    ELSE IF BLess(custody, total_withdrawal)
    THEN [err |-> "TransferFailed", acc |-> d, pay |-> << >>]
    ELSE [err |-> "Ok",
          acc |-> [d EXCEPT !.is_active = FALSE, !.accrued_rewards = merchant_rewards,
                            !.total_deposited = << >>],
          pay |-> total_withdrawal]

\* withdraw, from the transfer on
withdraw_transfer(d, merchant_rewards, total_withdrawal, custody, token_accounts) ==
    IF total_withdrawal = None
    THEN [err |-> "MathOverflow", acc |-> d, pay |-> << >>]
    ELSE IF d.deposit_token = "SplToken" /\ ~token_accounts
    THEN [err |-> "MissingTokenAccount", acc |-> d, pay |-> << >>]
    ELSE IF BLess(custody, total_withdrawal)
    THEN [err |-> "TransferFailed", acc |-> d, pay |-> << >>]
    ELSE [err |-> "Ok",
          acc |-> [d EXCEPT !.is_active = FALSE, !.accrued_rewards = merchant_rewards],
          pay |-> total_withdrawal]

withdraw_pay(d, merchant_rewards, custody, token_accounts) ==
    withdraw_transfer(d, merchant_rewards, then_add(d.total_deposited, merchant_rewards),
                      custody, token_accounts)

\* mutant: no check that the deposit is active
withdraw_any_state(v, d, signer, current_time, custody, token_accounts) ==
    IF d.merchant # signer
    THEN [err |-> "Unauthorized", acc |-> d, pay |-> << >>]
    ELSE withdraw_pay(d, withdraw_rewards(v, d, current_time), custody, token_accounts)

withdraw(v, d, signer, current_time, custody, token_accounts) ==
    IF ~d.is_active
    THEN [err |-> "DepositNotActive", acc |-> d, pay |-> << >>]
    ELSE IF d.merchant # signer
    THEN [err |-> "Unauthorized", acc |-> d, pay |-> << >>]
    ELSE withdraw_pay(d, withdraw_rewards(v, d, current_time), custody, token_accounts)

\* mutant: no check of the signer against the vault's authority
update_vault_config_any_signer(v, signer, min_deposit_sol, min_deposit_token, reward_share_rate, staking_enabled) ==
    LET v1 == IF min_deposit_sol # None
              THEN [v EXCEPT !.min_deposit_sol = min_deposit_sol] ELSE v
        v2 == IF min_deposit_token # None
              THEN [v1 EXCEPT !.min_deposit_token = min_deposit_token] ELSE v1
    IN  IF reward_share_rate # -1 /\ ~(reward_share_rate <= 10000)
        THEN [err |-> "InvalidRate", acc |-> v2]
        ELSE [err |-> "Ok",
              acc |-> [v2 EXCEPT
                         !.reward_share_rate = IF reward_share_rate # -1
                                               THEN reward_share_rate ELSE @,
                         !.staking_enabled = IF staking_enabled # "None"
                                             THEN staking_enabled = "true" ELSE @]]

\* mutant: the rate stored without the bound check
update_vault_config_rate_unchecked(v, signer, min_deposit_sol, min_deposit_token, reward_share_rate, staking_enabled) ==
    IF signer # v.authority
    THEN [err |-> "Unauthorized", acc |-> v]
    ELSE [err |-> "Ok",
          acc |-> [v EXCEPT
                     !.min_deposit_sol = IF min_deposit_sol # None
                                         THEN min_deposit_sol ELSE @,
                     !.min_deposit_token = IF min_deposit_token # None
                                           THEN min_deposit_token ELSE @,
                     !.reward_share_rate = IF reward_share_rate # -1
                                           THEN reward_share_rate ELSE @,
                     !.staking_enabled = IF staking_enabled # "None"
                                         THEN staking_enabled = "true" ELSE @]]

update_vault_config(v, signer, min_deposit_sol, min_deposit_token, reward_share_rate, staking_enabled) ==
    IF signer # v.authority
    THEN [err |-> "Unauthorized", acc |-> v]
    ELSE LET v1 == IF min_deposit_sol # None
                   THEN [v EXCEPT !.min_deposit_sol = min_deposit_sol] ELSE v
             v2 == IF min_deposit_token # None
                   THEN [v1 EXCEPT !.min_deposit_token = min_deposit_token] ELSE v1
         IN  IF reward_share_rate # -1 /\ ~(reward_share_rate <= 10000)
             THEN [err |-> "InvalidRate", acc |-> v2]
             ELSE LET v3 == IF reward_share_rate # -1
                            THEN [v2 EXCEPT !.reward_share_rate = reward_share_rate]
                            ELSE v2
                      v4 == IF staking_enabled # "None"
                            THEN [v3 EXCEPT !.staking_enabled = (staking_enabled = "true")]
                            ELSE v3
                  IN  [err |-> "Ok", acc |-> v4]

calculate_rewards_result(total_rewards) ==
    IF total_rewards = None
    THEN [err |-> "MathOverflow", ret |-> << >>]
    ELSE [err |-> "Ok", ret |-> total_rewards]

calculate_rewards(d, current_time) ==
    IF ~d.is_active
    THEN [err |-> "DepositNotActive", ret |-> << >>]
    ELSE LET time_elapsed  == current_time - d.deposited_at
             days_elapsed  == i64_div(time_elapsed, SecondsPerDay)
             yield_bps     == calculate_dynamic_yield(d.current_month_volume, days_elapsed)
             annual_reward == then_div(checked_mul(d.total_deposited, BN(yield_bps)),
                                       10000)
             daily_reward  == then_div(annual_reward, 365)
         IN  calculate_rewards_result(then_mul(daily_reward, as_u64(days_elapsed)))

\* $10 in micro-units
MIN_ORDER_USD == BN(10000000)

\* mutant: the window reset without its new start
reset_window_keeps_start(d, current_time) ==
    LET month_elapsed == i64_div(current_time - d.last_volume_reset, SecondsPerMonth)
    IN  IF month_elapsed >= 1
        THEN [d EXCEPT !.current_month_volume = << >>,
                       !.monthly_unique_customers = << >>]
        ELSE d

\* record_order, the window reset
reset_window(d, current_time) ==
    LET month_elapsed == i64_div(current_time - d.last_volume_reset, SecondsPerMonth)
    IN  IF month_elapsed >= 1
        THEN [d EXCEPT !.current_month_volume = << >>,
                       !.monthly_unique_customers = << >>,
                       !.last_volume_reset = current_time]
        ELSE d

\* record_order, the yield recalculation
recalculate_yield(d, current_time) ==
    LET days_since_deposit == i64_div(current_time - d.deposited_at, SecondsPerDay)
    IN  [err |-> "Ok",
         acc |-> [d EXCEPT !.current_yield_bps =
                      calculate_dynamic_yield(d.current_month_volume, days_since_deposit)]]

\* record_order, the four metric updates: each takes the account as the step
\* before left it and returns MathOverflow with it when its add overflows
add_customer(d, customers, current_time) ==
    IF customers = None THEN [err |-> "MathOverflow", acc |-> d]
    ELSE recalculate_yield([d EXCEPT !.monthly_unique_customers = customers],
                           current_time)

add_month_volume(d, month, current_time) ==
    IF month = None THEN [err |-> "MathOverflow", acc |-> d]
    ELSE add_customer([d EXCEPT !.current_month_volume = month],
                      checked_add_u32(d.monthly_unique_customers, BN(1)), current_time)

add_total_volume(d, volume, order_amount_usd, current_time) ==
    IF volume = None THEN [err |-> "MathOverflow", acc |-> d]
    ELSE add_month_volume([d EXCEPT !.total_volume_usd = volume],
                          checked_add(d.current_month_volume, order_amount_usd),
                          current_time)

add_order(d, orders, order_amount_usd, current_time) ==
    IF orders = None THEN [err |-> "MathOverflow", acc |-> d]
    ELSE add_total_volume([d EXCEPT !.total_orders_processed = orders],
                          checked_add(d.total_volume_usd, order_amount_usd),
                          order_amount_usd, current_time)

\* mutant: no minimum order amount
record_order_any_amount(d, order_amount_usd, current_time) ==
    add_order(d, checked_add(d.total_orders_processed, BN(1)), order_amount_usd,
              current_time)

\* record_order after the window reset
record_order_checked(d, order_amount_usd, current_time) ==
    IF BLess(order_amount_usd, MIN_ORDER_USD)
    THEN [err |-> "OrderTooSmall", acc |-> d]
    ELSE add_order(d, checked_add(d.total_orders_processed, BN(1)), order_amount_usd,
                   current_time)

record_order(d, order_amount_usd, current_time) ==
    record_order_checked(reset_window(d, current_time), order_amount_usd, current_time)

get_merchant_tier(d, current_time) ==
    [err |-> "Ok",
     ret |-> BN(calculate_merchant_tier(d.current_month_volume, d.deposited_at,
                                        current_time))]

\* An instruction that returns an error is rolled back by the runtime: the
\* account keeps its bytes and no lamports or tokens move.  Only a handler
\* that returns Ok has its mutable accounts written back.
persist(res, old) == IF res.err = "Ok" THEN res.acc ELSE old

\* ---------------------------------------------------------------------------
\* Actions: one per instruction, with the account validation of its context
\* ---------------------------------------------------------------------------

PrincipalCap == BMul(BN(MaxPrincipalUnits), BN(10^9))

NoPure == [fn |-> "none"]

Init ==
    /\ vault = initialize(Authority)
    /\ deposits = [k \in Keys |-> ZeroDeposit]
    /\ created = {}
    /\ \E r \in Reserves : vault_sol = r /\ vault_token = r
    /\ now = Genesis
    /\ last = NoOp
    /\ activations = [k \in Keys |-> 0]
    /\ pure = NoPure

\* DepositSol: merchant signs, merchant_deposit is init_if_needed at the
\* address derived from (vault, merchant); the instruction is sent while it
\* leaves total_deposited within cap
DepositSolUpTo(m, amount, cap) ==
    \E res \in {deposit_sol(vault, deposits[m], m, amount, now)} :
        /\ res.err = "Ok" => BLeq(res.acc.total_deposited, cap)
        /\ res.err = "Ok" /\ ~deposits[m].is_active => activations[m] < MaxActivations
        /\ deposits' = [deposits EXCEPT ![m] = persist(res, deposits[m])]
        /\ created' = IF res.err = "Ok" THEN created \cup {m} ELSE created
        /\ activations' = IF res.err = "Ok" /\ ~deposits[m].is_active
                          THEN [activations EXCEPT ![m] = @ + 1] ELSE activations
        /\ vault_sol' = IF res.err = "Ok" THEN BAdd(vault_sol, res.moved) ELSE vault_sol
        /\ last' = Outcome("deposit_sol", m, res.err, << >>, << >>)
        /\ UNCHANGED <<vault, vault_token, now, pure>>

DepositSol(m, amount) == DepositSolUpTo(m, amount, PrincipalCap)

DepositTokenUpTo(m, amount, cap) ==
    \E res \in {deposit_token(vault, deposits[m], m, amount, now)} :
        /\ res.err = "Ok" => BLeq(res.acc.total_deposited, cap)
        /\ res.err = "Ok" /\ ~deposits[m].is_active => activations[m] < MaxActivations
        /\ deposits' = [deposits EXCEPT ![m] = persist(res, deposits[m])]
        /\ created' = IF res.err = "Ok" THEN created \cup {m} ELSE created
        /\ activations' = IF res.err = "Ok" /\ ~deposits[m].is_active
                          THEN [activations EXCEPT ![m] = @ + 1] ELSE activations
        /\ vault_token' = IF res.err = "Ok" THEN BAdd(vault_token, res.moved)
                          ELSE vault_token
        /\ last' = Outcome("deposit_token", m, res.err, << >>, << >>)
        /\ UNCHANGED <<vault, vault_sol, now, pure>>

DepositToken(m, amount) == DepositTokenUpTo(m, amount, PrincipalCap)

\* mutant: merchant_deposit taken at any address, without the seeds constraint
withdraw_ix_any_address(signer, key, token_accounts) ==
    IF key \notin created
    THEN [err |-> "AccountNotInitialized", acc |-> deposits[key], pay |-> << >>]
    ELSE withdraw(vault, deposits[key], signer, now,
                  IF deposits[key].deposit_token = "Sol" THEN vault_sol ELSE vault_token,
                  token_accounts)

\* the Withdraw context and handler: merchant_deposit must exist, and its address
\* must be the one derived from (vault, signer)
withdraw_ix(signer, key, token_accounts) ==
    IF key \notin created
    THEN [err |-> "AccountNotInitialized", acc |-> deposits[key], pay |-> << >>]
    ELSE IF key # signer
    THEN [err |-> "ConstraintSeeds", acc |-> deposits[key], pay |-> << >>]
    ELSE withdraw(vault, deposits[key], signer, now,
                  IF deposits[key].deposit_token = "Sol" THEN vault_sol ELSE vault_token,
                  token_accounts)

\* Withdraw: signer signs; key is the merchant_deposit address the caller passes
Withdraw(signer, key, token_accounts) ==
    \E res \in {withdraw_ix(signer, key, token_accounts)} :
        /\ deposits' = [deposits EXCEPT ![key] = persist(res, deposits[key])]
        /\ vault_sol' = IF res.err = "Ok" /\ deposits[key].deposit_token = "Sol"
                        THEN BSub(vault_sol, res.pay) ELSE vault_sol
        /\ vault_token' = IF res.err = "Ok" /\ deposits[key].deposit_token = "SplToken"
                          THEN BSub(vault_token, res.pay) ELSE vault_token
        /\ last' = Outcome("withdraw", key, res.err, res.pay,
                           IF res.err = "Ok" THEN res.acc.accrued_rewards ELSE << >>)
        /\ UNCHANGED <<vault, created, now, activations, pure>>

UpdateVaultConfig(signer, min_sol, min_token, rate, enabled) ==
    \E res \in {update_vault_config(vault, signer, min_sol, min_token, rate, enabled)} :
        /\ vault' = persist(res, vault)
        /\ last' = Outcome("update_vault_config", NoKey, res.err, << >>, << >>)
        /\ UNCHANGED <<deposits, created, vault_sol, vault_token, now, activations, pure>>

CalculateRewards(m) ==
    \E res \in {IF m \notin created
                THEN [err |-> "AccountNotInitialized", ret |-> << >>]
                ELSE calculate_rewards(deposits[m], now)} :
        /\ last' = Outcome("calculate_rewards", m, res.err, << >>, res.ret)
        /\ UNCHANGED <<vault, deposits, created, vault_sol, vault_token, now,
                       activations, pure>>

\* RecordOrder: any agent signs; merchant_deposit must exist
RecordOrder(m, order_amount_usd) ==
    \E res \in {IF m \notin created
                THEN [err |-> "AccountNotInitialized", acc |-> deposits[m]]
                ELSE record_order(deposits[m], order_amount_usd, now)} :
        /\ res.err = "Ok" => BLess(deposits[m].total_orders_processed, BN(MaxOrders))
        /\ deposits' = [deposits EXCEPT ![m] = persist(res, deposits[m])]
        /\ last' = Outcome("record_order", m, res.err, << >>, << >>)
        /\ UNCHANGED <<vault, created, vault_sol, vault_token, now, activations, pure>>

GetMerchantTier(m) ==
    \E res \in {IF m \notin created
                THEN [err |-> "AccountNotInitialized", ret |-> << >>]
                ELSE get_merchant_tier(deposits[m], now)} :
        /\ last' = Outcome("get_merchant_tier", m, res.err, << >>, res.ret)
        /\ UNCHANGED <<vault, deposits, created, vault_sol, vault_token, now,
                       activations, pure>>

\* the clock advances to the next point of the timeline
Tick(i) ==
    /\ now = Genesis + Timeline[i] * SecondsPerDay
    /\ now' = Genesis + Timeline[i + 1] * SecondsPerDay
    /\ UNCHANGED <<vault, deposits, created, vault_sol, vault_token, last, activations,
                   pure>>

\* the outcome of the instruction is returned to its caller
Return ==
    /\ last # NoOp
    /\ last' = NoOp
    /\ UNCHANGED <<vault, deposits, created, vault_sol, vault_token, now, activations,
                   pure>>

\* one instruction at a time: the next one is sent when the last has returned
Ready == last = NoOp

Next ==
    \/ \E m \in Keys, a \in SolAmounts : Ready /\ DepositSol(m, a)
    \/ \E m \in Keys, a \in TokenAmounts : Ready /\ DepositToken(m, a)
    \/ \E s \in Signers, k \in Keys, t \in BOOLEAN : Ready /\ Withdraw(s, k, t)
    \/ \E c \in ConfigCalls : Ready /\ UpdateVaultConfig(c[1], c[2], c[3], c[4], c[5])
    \/ \E m \in Keys : Ready /\ CalculateRewards(m)
    \/ \E m \in Keys, a \in OrderAmounts : Ready /\ RecordOrder(m, a)
    \/ \E m \in Keys : Ready /\ GetMerchantTier(m)
    \/ \E i \in 1 .. (Len(Timeline) - 1) : Ready /\ Tick(i)
    \/ Return

Spec == Init /\ [][Next]_vars

\* ---------------------------------------------------------------------------
\* The same instructions with amounts at the top of the u64 range
\* ---------------------------------------------------------------------------

\* 6 * 10^16 units (times 300 within u64, times 308 beyond it) and u64::MAX units;
\* a $50 order and one of u64::MAX micro-dollars
WideAmounts == {<<0, 0, 0, 0, 6>>, U64Max}
WideOrders  == {BN(50000000), U64Max}

\* deposits are sent while they leave total_deposited within 2 * 10^17
WideCap == <<0, 0, 0, 0, 20>>

NextWide ==
    \/ \E m \in Keys, a \in WideAmounts : Ready /\ DepositSolUpTo(m, a, WideCap)
    \/ \E m \in Keys, a \in WideAmounts : Ready /\ DepositTokenUpTo(m, a, WideCap)
    \/ \E s \in Signers, k \in Keys, t \in BOOLEAN : Ready /\ Withdraw(s, k, t)
    \/ \E m \in Keys, a \in WideOrders : Ready /\ RecordOrder(m, a)
    \/ \E i \in 1 .. (Len(Timeline) - 1) : Ready /\ Tick(i)
    \/ Return

SpecWide == Init /\ [][NextWide]_vars

\* ---------------------------------------------------------------------------
\* Two merchants, each with its own MerchantDeposit account, on one vault
\* ---------------------------------------------------------------------------

PairKeys    == {"m1", "m2"}
PairAmounts == {BN(2000000000)}
PairOrders  == {BN(50000000)}

\* the custody accounts start empty; the token custody may hold a reserve
InitPair ==
    /\ vault = initialize(Authority)
    /\ deposits = [k \in PairKeys |-> ZeroDeposit]
    /\ created = {}
    /\ vault_sol = << >>
    /\ vault_token \in Reserves
    /\ now = Genesis
    /\ last = NoOp
    /\ activations = [k \in PairKeys |-> 0]
    /\ pure = NoPure

\* token deposits only, sent while they leave total_deposited within the amount of
\* one deposit
NextPair ==
    \/ \E m \in PairKeys, a \in PairAmounts : Ready /\ DepositTokenUpTo(m, a, a)
    \/ \E k \in PairKeys : Ready /\ Withdraw(k, k, TRUE)
    \/ \E m \in PairKeys, a \in PairOrders : Ready /\ RecordOrder(m, a)
    \/ \E i \in 1 .. (Len(Timeline) - 1) : Ready /\ Tick(i)
    \/ Return

SpecPair == InitPair /\ [][NextPair]_vars

\* ---------------------------------------------------------------------------
\* The pure functions on their own: inputs drawn at the start, then applied
\* ---------------------------------------------------------------------------

\* monthly volumes: 0, $50, the tier and ramp thresholds and their predecessors,
\* u64::MAX
PureVolumes ==
    {<< >>, BN(50000000),
     <<9999, 9999, 99>>, VOLUME_SILVER, <<9999, 9999, 499>>, VOLUME_GOLD,
     <<9999, 9999, 1999>>, VOLUME_PLATINUM, <<9999, 9999, 9999>>, VOLUME_BONUS_CAP_USD,
     U64Max}

\* days deposited: around each tenure threshold, and before the deposit
PureDays == {-400, -1, 0, 10, 89, 90, 179, 180, 364, 365, 400}

\* seconds into the last day
PureOffsets == {0, SecondsPerDay - 1}

InitPure ==
    /\ vault = initialize(Authority)
    /\ deposits = [k \in Keys |-> ZeroDeposit]
    /\ created = {}
    /\ vault_sol = << >>
    /\ vault_token = << >>
    /\ now = Genesis
    /\ last = NoOp
    /\ activations = [k \in Keys |-> 0]
    /\ \E v1 \in PureVolumes, v2 \in PureVolumes, d1 \in PureDays, d2 \in PureDays,
          off \in PureOffsets :
          pure = [fn |-> "in", v1 |-> v1, v2 |-> v2, d1 |-> d1, d2 |-> d2, off |-> off,
                  out |-> << >>]

\* calculate_dynamic_yield at (v1, d1), (v2, d1) and (v1, d2)
ApplyYield ==
    /\ pure.fn = "in"
    /\ pure' = [pure EXCEPT !.fn = "yield",
                            !.out = <<calculate_dynamic_yield(pure.v1, pure.d1),
                                      calculate_dynamic_yield(pure.v2, pure.d1),
                                      calculate_dynamic_yield(pure.v1, pure.d2)>>]
    /\ UNCHANGED <<vault, deposits, created, vault_sol, vault_token, now, last,
                   activations>>

\* calculate_merchant_tier for volume v1, d1 days and off seconds after the deposit
ApplyTier ==
    /\ pure.fn = "in"
    /\ pure' = [pure EXCEPT !.fn = "tier",
                            !.out = <<calculate_merchant_tier(
                                          pure.v1, Genesis,
                                          Genesis + pure.d1 * SecondsPerDay + pure.off)>>]
    /\ UNCHANGED <<vault, deposits, created, vault_sol, vault_token, now, last,
                   activations>>

NextPure == ApplyYield \/ ApplyTier

SpecPure == InitPure /\ [][NextPure]_vars

\* ---------------------------------------------------------------------------
\* Properties
\* ---------------------------------------------------------------------------

\* whole days from deposited_at to the clock
DaysHeld(d) == (now - d.deposited_at) \div SecondsPerDay

\* total_deposited + floor(floor(floor(total_deposited * yield / 10000) / 365)
\*                         * days * share / 10000), in exact arithmetic
PayoutFormula(total_deposited, yield_bps, days, share_bps) ==
    BAdd(total_deposited,
         BDivSmall(BMul(BMul(BDivSmall(BDivSmall(BMul(total_deposited, BN(yield_bps)),
                                                 10000), 365),
                             BN(days)),
                        BN(share_bps)),
                   10000))

\* C1: a successful withdraw transfers total_deposited plus the reward computed
\* from the stored current_yield_bps, the whole days held and the vault's current
\* reward_share_rate
C1_WithdrawPayout ==
    [][\A s \in Signers, k \in Keys, t \in BOOLEAN :
          Withdraw(s, k, t) /\ last'.err = "Ok"
          => /\ now >= deposits[k].deposited_at
             /\ last'.pay = PayoutFormula(deposits[k].total_deposited,
                                          deposits[k].current_yield_bps,
                                          DaysHeld(deposits[k]),
                                          vault.reward_share_rate)]_vars

\* C1 witness: principal 2e9, stored yield 308, share 8000, 30 days held: the
\* withdraw has paid 2,004,050,408
C1_Witness ==
    /\ last.op = "withdraw" /\ last.err = "Ok"
    /\ deposits[last.key].total_deposited = BN(2000000000)
    /\ deposits[last.key].current_yield_bps = 308
    /\ vault.reward_share_rate = 8000
    /\ DaysHeld(deposits[last.key]) = 30
    /\ last.pay = BN(2004050408)

\* C2: a successful withdraw leaves the account inactive, and a withdraw by the
\* merchant on a withdrawn account fails with DepositNotActive, pays nothing and
\* changes no account, vault or custody balance
C2_NoSecondWithdraw ==
    [][\A s \in Signers, k \in Keys, t \in BOOLEAN :
          Withdraw(s, k, t)
          => /\ last'.err = "Ok" => deposits[k].is_active /\ ~deposits'[k].is_active
             /\ k \in created /\ ~deposits[k].is_active
                => /\ s = k => last'.err = "DepositNotActive"
                   /\ last'.err # "Ok"
                   /\ last'.pay = << >>
                   /\ UNCHANGED <<deposits, vault, vault_sol, vault_token>>]_vars

\* C2 witness: the merchant's second withdraw has been refused
C2_Witness ==
    /\ last.op = "withdraw" /\ last.err = "DepositNotActive"
    /\ last.key \in created
    /\ ~deposits[last.key].is_active
    /\ activations[last.key] = 1

C4_PreviewEqualsWithdraw ==
    last.op = "calculate_rewards" /\ last.err = "Ok"
    => last.ret = withdraw_rewards(vault, deposits[last.key], now)

\* what a deposit of one class does, given the minimum of that class: below the
\* minimum it fails and changes nothing; when it succeeds, total_deposited is
\* `expected`
DepositEffect(m, amount, minimum, expected) ==
    IF BLess(amount, minimum)
    THEN /\ last'.err = "InsufficientDeposit"
         /\ UNCHANGED <<deposits, created, vault, vault_sol, vault_token>>
    ELSE last'.err = "Ok" => deposits'[m].total_deposited = expected

C6_ClassMismatchRejected ==
    [][/\ \A m \in Keys, a \in TokenAmounts :
             DepositToken(m, a) /\ deposits[m].is_active
                                /\ deposits[m].deposit_token = "Sol"
             => /\ last'.err # "Ok"
                /\ deposits'[m].total_deposited = deposits[m].total_deposited
       /\ \A m \in Keys, a \in SolAmounts :
             DepositSol(m, a) /\ deposits[m].is_active
                              /\ deposits[m].deposit_token = "SplToken"
             => /\ last'.err # "Ok"
                /\ deposits'[m].total_deposited = deposits[m].total_deposited]_vars

\* C7: every account created by a deposit has 300 <= current_yield_bps <= 1200
C7_YieldInRange ==
    \A k \in created :
        /\ deposits[k].current_yield_bps >= 300
        /\ deposits[k].current_yield_bps <= 1200

\* C7 witness: a recorded order has moved the yield of an account off its base
C7_Witness ==
    \E k \in created :
        /\ deposits[k].total_orders_processed # << >>
        /\ deposits[k].current_yield_bps > 300

\* C8: the yield is non-decreasing in the volume and in the days (>= 0), lies in
\* [300, 1200], and is 1200 from $1M a month and 365 days on
C8_YieldMonotone ==
    pure.fn = "yield"
    => /\ BLeq(pure.v1, pure.v2) => pure.out[1] <= pure.out[2]
       /\ 0 <= pure.d1 /\ pure.d1 <= pure.d2 => pure.out[1] <= pure.out[3]
       /\ \A i \in 1 .. 3 : 300 <= pure.out[i] /\ pure.out[i] <= 1200
       /\ BLeq(VOLUME_BONUS_CAP_USD, pure.v1) /\ pure.d1 >= 365 => pure.out[1] = 1200

\* C8 witness: a larger volume and a longer tenure have each raised the yield, and
\* the pair at the two caps has got 1200
C8_Witness ==
    /\ pure.fn = "yield"
    /\ pure.v1 = VOLUME_BONUS_CAP_USD /\ pure.d1 = 365 /\ pure.out[1] = 1200
    /\ pure.out[2] < 1200
    /\ pure.out[3] < 1200

\* the tier as the table states it, highest first
TierTable(volume, days) ==
    IF BLeq(VOLUME_PLATINUM, volume) /\ days >= 365 THEN 3
    ELSE IF BLeq(VOLUME_GOLD, volume) /\ days >= 180 THEN 2
    ELSE IF BLeq(VOLUME_SILVER, volume) /\ days >= 90 THEN 1
    ELSE 0

\* C9: the classifier returns Platinum iff volume >= $200,000 and tenure >= 365
\* days, else Gold iff >= $50,000 and >= 180 days, else Silver iff >= $10,000 and
\* >= 90 days, else Bronze, the tenure being the whole days since the deposit
C9_TierTable ==
    pure.fn = "tier"
    => pure.out[1] = TierTable(pure.v1,
                               (pure.d1 * SecondsPerDay + pure.off) \div SecondsPerDay)

\* C9 witness: a volume above every threshold with 89 days and 86399 seconds of
\* tenure has been classified Bronze
C9_Witness ==
    /\ pure.fn = "tier"
    /\ pure.v1 = U64Max /\ pure.d1 = 89 /\ pure.off = SecondsPerDay - 1
    /\ pure.out[1] = 0

\* C10: record_order with an amount below $10 fails with OrderTooSmall and leaves
\* the account as it was, window state included
C10_SmallOrderRejected ==
    [][\A m \in Keys, a \in OrderAmounts :
          RecordOrder(m, a) /\ m \in created /\ BLess(a, BN(10 * 10^6))
          => /\ last'.err = "OrderTooSmall"
             /\ UNCHANGED <<deposits, vault, vault_sol, vault_token, created>>]_vars

\* C10 witness: a $5 order has been refused 30 days after the last window reset,
\* on an account with volume in its window
C10_Witness ==
    /\ last.op = "record_order" /\ last.err = "OrderTooSmall"
    /\ now - deposits[last.key].last_volume_reset >= 30 * SecondsPerDay
    /\ deposits[last.key].current_month_volume # << >>
    /\ deposits[last.key].monthly_unique_customers # << >>

\* C11: update_vault_config by the authority with a rate above 10000 fails with
\* InvalidRate and leaves every field of the vault as it was, whatever else the
\* call supplies
C11_InvalidRateRejected ==
    [][\A c \in ConfigCalls :
          UpdateVaultConfig(c[1], c[2], c[3], c[4], c[5])
             /\ c[1] = vault.authority /\ c[4] > 10000
          => /\ last'.err = "InvalidRate"
             /\ vault' = vault]_vars

\* C11 witness: a call with rate 10001 that also supplied a SOL minimum of 2e9 and
\* staking_enabled = false has been refused, and the vault has its defaults
C11_Witness ==
    /\ last.op = "update_vault_config" /\ last.err = "InvalidRate"
    /\ vault.min_deposit_sol = BN(1000000000)
    /\ vault.staking_enabled
    /\ vault.reward_share_rate = 8000

\* the gross reward of withdraw: floor(floor(total_deposited * yield / 10000) / 365)
\* * days, in exact arithmetic
GrossReward(d) ==
    BMul(BDivSmall(BDivSmall(BMul(d.total_deposited, BN(d.current_yield_bps)), 10000),
                   365),
         BN(DaysHeld(d)))

\* C12: reward_share_rate is at most 10000 in every state, and the reward a
\* withdraw has paid is at most the gross reward
C12_ShareAtMostAll ==
    /\ vault.reward_share_rate <= 10000
    /\ last.op = "withdraw" /\ last.err = "Ok"
       => BLeq(last.ret, GrossReward(deposits[last.key]))

\* C12 witness: after the share was set to 5000, a withdraw has paid a reward
\* that is positive and below the gross reward
C12_Witness ==
    /\ last.op = "withdraw" /\ last.err = "Ok"
    /\ vault.reward_share_rate = 5000
    /\ last.ret # << >>
    /\ BLess(last.ret, GrossReward(deposits[last.key]))

\* C13 as claimed: total_orders_processed and total_volume_usd of an account never
\* decrease
C13_CountersNeverDecrease ==
    [][\A k \in Keys :
          /\ BLeq(deposits[k].total_orders_processed, deposits'[k].total_orders_processed)
          /\ BLeq(deposits[k].total_volume_usd, deposits'[k].total_volume_usd)]_vars

\* the top-up add of a deposit of `amount` under `minimum` overflows u64
DepositOverflows(d, amount, minimum) ==
    /\ ~BLess(amount, minimum)
    /\ d.is_active
    /\ BLess(U64Max, BAdd(d.total_deposited, amount))

\* one of the four counter adds of record_order overflows, the monthly ones
\* starting from 0 when the window is reset
OrderOverflows(d, amount) ==
    LET reset == now - d.last_volume_reset >= SecondsPerMonth
        month == IF reset THEN << >> ELSE d.current_month_volume
        customers == IF reset THEN << >> ELSE d.monthly_unique_customers
    IN  /\ ~BLess(amount, MIN_ORDER_USD)
        /\ \/ BLess(U64Max, BAdd(d.total_orders_processed, BN(1)))
           \/ BLess(U64Max, BAdd(d.total_volume_usd, amount))
           \/ BLess(U64Max, BAdd(month, amount))
           \/ BLess(U32Max, BAdd(customers, BN(1)))

\* one of the multiplications or the final add of withdraw overflows u64
WithdrawOverflows(v, d) ==
    LET product == BMul(d.total_deposited, BN(d.current_yield_bps))
        daily   == BDivSmall(BDivSmall(product, 10000), 365)
        gross   == BMul(daily, BN(DaysHeld(d)))
        shared  == BMul(gross, BN(v.reward_share_rate))
    IN  \/ BLess(U64Max, product)
        \/ BLess(U64Max, gross)
        \/ BLess(U64Max, shared)
        \/ BLess(U64Max, BAdd(d.total_deposited, BDivSmall(shared, 10000)))

\* C14: deposit, record_order and withdraw fail with MathOverflow exactly when one
\* of their checked steps overflows, and an instruction that has failed with
\* MathOverflow has changed no account, no window and no custody balance
C14_OverflowAborts ==
    [][/\ \A m \in Keys, a \in WideAmounts :
             /\ DepositSolUpTo(m, a, WideCap)
                => (last'.err = "MathOverflow"
                      <=> DepositOverflows(deposits[m], a, vault.min_deposit_sol))
             /\ DepositTokenUpTo(m, a, WideCap)
                => (last'.err = "MathOverflow"
                      <=> DepositOverflows(deposits[m], a, vault.min_deposit_token))
       /\ \A m \in Keys, a \in WideOrders :
             RecordOrder(m, a) /\ m \in created
             => (last'.err = "MathOverflow" <=> OrderOverflows(deposits[m], a))
       /\ \A k \in Keys, t \in BOOLEAN :
             Withdraw(k, k, t) /\ deposits[k].is_active
             => (last'.err = "MathOverflow" <=> WithdrawOverflows(vault, deposits[k]))
       /\ last'.err = "MathOverflow"
             => UNCHANGED <<deposits, created, vault, vault_sol, vault_token>>]_vars

\* C14 witness: 30 days after the last window reset, an order that overflows
\* total_volume_usd has been refused on an account that still has the volume and
\* the customers of its window
C14_Witness ==
    /\ last.op = "record_order" /\ last.err = "MathOverflow"
    /\ now - deposits[last.key].last_volume_reset >= SecondsPerMonth
    /\ deposits[last.key].current_month_volume # << >>
    /\ deposits[last.key].monthly_unique_customers # << >>

\* the results (outcome, account written, amount moved) of the instructions that
\* merchant b can send at time t, when its account is d (allocated iff exists)
\* and the custody accounts hold sol and token
ResultsFor(b, v, d, exists, sol, token, t) ==
    [deposit_token |-> [a \in PairAmounts |-> deposit_token(v, d, b, a, t)],
     withdraw      |-> IF ~exists
                       THEN [err |-> "AccountNotInitialized", acc |-> d, pay |-> << >>]
                       ELSE withdraw(v, d, b, t,
                                     IF d.deposit_token = "Sol" THEN sol ELSE token, TRUE),
     record_order  |-> [a \in PairOrders |->
                           IF ~exists THEN [err |-> "AccountNotInitialized", acc |-> d]
                           ELSE record_order(d, a, t)]]

\* C15 as claimed: an instruction on merchant a's account leaves merchant b's
\* account unchanged, and the result of every instruction on b's account is the
\* same after it as before it, so that the two can run in either order
C15_MerchantsIndependent ==
    [][\A a \in PairKeys, b \in PairKeys :
          a # b /\ last'.key = a /\ last.key # a
          => /\ deposits'[b] = deposits[b]
             /\ ResultsFor(b, vault', deposits'[b], b \in created', vault_sol',
                           vault_token', now')
                = ResultsFor(b, vault, deposits[b], b \in created, vault_sol,
                             vault_token, now)]_vars

YieldFormula(volume, days) ==
    LET volume_bonus  == BInt(BMin(BN(600), BDivPow(BMul(volume, BN(600)), 3)))
        ratio         == (days * 300) \div 365
        loyalty_bonus == IF days < 0 THEN 0 ELSE IF ratio < 300 THEN ratio ELSE 300
        sum           == 300 + volume_bonus + loyalty_bonus
    IN  IF sum < 1200 THEN sum ELSE 1200

\* the account a successful record_order of `amount` leaves
OrderEffect(d, amount) ==
    LET reset == now - d.last_volume_reset >= SecondsPerMonth
        month == IF reset THEN amount ELSE BAdd(d.current_month_volume, amount)
    IN  [d EXCEPT
           !.current_month_volume     = month,
           !.monthly_unique_customers = IF reset THEN BN(1) ELSE BAdd(@, BN(1)),
           !.last_volume_reset        = IF reset THEN now ELSE @,
           !.total_orders_processed   = BAdd(@, BN(1)),
           !.total_volume_usd         = BAdd(@, amount),
           !.current_yield_bps        = YieldFormula(month, DaysHeld(d))]

\* C17: a successful record_order restarts the window when 30 days have passed
\* since last_volume_reset, adds the order to the window and to the lifetime
\* counters, and stores the yield of the new monthly volume and the whole days
\* since the deposit; nothing else in the account changes
C17_OrderPostState ==
    [][\A m \in Keys, a \in OrderAmounts :
          RecordOrder(m, a) /\ last'.err = "Ok"
          => deposits'[m] = OrderEffect(deposits[m], a)]_vars

\* C17 witness: a $50 order 10 days after a deposit with no volume before it has
\* set current_yield_bps to 308
C17_Witness ==
    /\ last.op = "record_order" /\ last.err = "Ok"
    /\ deposits[last.key].is_active
    /\ DaysHeld(deposits[last.key]) = 10
    /\ deposits[last.key].total_volume_usd = BN(50000000)
    /\ deposits[last.key].current_month_volume = BN(50000000)
    /\ deposits[last.key].current_yield_bps = 308

\* C18: for every u64 volume and every number of days, calculate_dynamic_yield
\* returns min(1200, 300 + min(600, floor(volume * 600 / 10^12))
\* + min(300, floor(days * 300 / 365))), with the loyalty term 0 for negative days
C18_YieldFormula ==
    pure.fn = "yield"
    => /\ pure.out[1] = YieldFormula(pure.v1, pure.d1)
       /\ pure.out[2] = YieldFormula(pure.v2, pure.d1)
       /\ pure.out[3] = YieldFormula(pure.v1, pure.d2)

\* C18 witness: u64::MAX of volume one day before the deposit has got 900, and
\* the same volume after 364 days 1199
C18_Witness ==
    /\ pure.fn = "yield"
    /\ pure.v1 = U64Max /\ pure.d1 = -1 /\ pure.out[1] = 900
    /\ pure.d2 = 364 /\ pure.out[3] = 1199

\* C19: a successful deposit into an active account adds amount to
\* total_deposited and changes no other field of the account
C19_TopUpFrame ==
    [][/\ \A m \in Keys, a \in SolAmounts :
             DepositSol(m, a) /\ last'.err = "Ok" /\ deposits[m].is_active
             => deposits'[m] = [deposits[m] EXCEPT !.total_deposited = BAdd(@, a)]
       /\ \A m \in Keys, a \in TokenAmounts :
             DepositToken(m, a) /\ last'.err = "Ok" /\ deposits[m].is_active
             => deposits'[m] = [deposits[m] EXCEPT !.total_deposited = BAdd(@, a)]]_vars

\* C19 witness: an account that was opened 30 days ago and has an order and a
\* yield of 308 has been topped up to 4e9 and has kept them
C19_Witness ==
    /\ last.op \in {"deposit_sol", "deposit_token"} /\ last.err = "Ok"
    /\ deposits[last.key].total_deposited = <<0, 0, 40>>
    /\ DaysHeld(deposits[last.key]) = 30
    /\ deposits[last.key].total_orders_processed = BN(1)
    /\ deposits[last.key].current_yield_bps = 308

\* C20: a successful withdraw sets is_active to false and accrued_rewards to the
\* amount paid less total_deposited, and changes no other field of the account
C20_WithdrawFrame ==
    [][\A s \in Signers, k \in Keys, t \in BOOLEAN :
          Withdraw(s, k, t) /\ last'.err = "Ok"
          => deposits'[k] = [deposits[k] EXCEPT
                               !.is_active = FALSE,
                               !.accrued_rewards =
                                   BSub(last'.pay, deposits[k].total_deposited)]]_vars

\* C20 witness: a withdrawn account holds a positive accrued_rewards and still
\* its principal of 2e9, its order and its yield of 308
C20_Witness ==
    /\ last.op = "withdraw" /\ last.err = "Ok"
    /\ ~deposits[last.key].is_active
    /\ deposits[last.key].accrued_rewards # << >>
    /\ deposits[last.key].total_deposited = BN(2000000000)
    /\ deposits[last.key].total_orders_processed = BN(1)
    /\ deposits[last.key].current_yield_bps = 308

\* what C21 says of a withdraw on an active account signed by another identity,
\* failing with `error`: nothing is paid, and the account and the custody
\* balances stay as they were
ForeignWithdrawRefused(error) ==
    \A s \in Signers, k \in Keys, t \in BOOLEAN :
        Withdraw(s, k, t) /\ s # k /\ k \in created /\ deposits[k].is_active
        => /\ last'.err = error
           /\ last'.pay = << >>
           /\ deposits'[k] = deposits[k]
           /\ UNCHANGED <<vault_sol, vault_token>>

\* a custody balance goes down only by a successful withdraw signed by the
\* merchant of the account, which is the identity the payout goes to
PayoutOnlyToMerchant ==
    BLess(vault_sol', vault_sol) \/ BLess(vault_token', vault_token)
    => /\ last'.op = "withdraw" /\ last'.err = "Ok"
       /\ \E t \in BOOLEAN : Withdraw(last'.key, last'.key, t)
       /\ deposits[last'.key].merchant = last'.key

C22_InactiveOrderRejected ==
    [][\A m \in Keys, a \in OrderAmounts :
          RecordOrder(m, a) /\ m \in created /\ ~deposits[m].is_active
          => /\ last'.err = "DepositNotActive"
             /\ deposits'[m] = deposits[m]]_vars

\* the sum of total_deposited over the active accounts of a class among keys
RECURSIVE ActivePrincipal(_, _)
ActivePrincipal(keys, class) ==
    IF keys = {} THEN << >>
    ELSE LET k == CHOOSE x \in keys : TRUE
             rest == ActivePrincipal(keys \ {k}, class)
         IN  IF deposits[k].is_active /\ deposits[k].deposit_token = class
             THEN BAdd(deposits[k].total_deposited, rest)
             ELSE rest

\* C23 as claimed: each custody account holds at least the principal of the
\* active accounts of its class
C23_CustodyCoversPrincipal ==
    /\ BLeq(ActivePrincipal(DOMAIN deposits, "Sol"), vault_sol)
    /\ BLeq(ActivePrincipal(DOMAIN deposits, "SplToken"), vault_token)

\* C24 as claimed: a withdraw by the merchant of an active account does not fail
\* with MathOverflow
C24_NeverLocked ==
    [][\A k \in Keys, t \in BOOLEAN :
          Withdraw(k, k, t) /\ deposits[k].is_active
          => last'.err # "MathOverflow"]_vars

====
